---- MODULE Spec2Model ----
(***************************************************************************)
(* Model of run.py: main(), train() and test() of the dance                *)
(* classification harness.  A run starts in one of the three routines      *)
(* (main() from the command line, or train()/test() called directly with   *)
(* their arguments) and proceeds one step at a time: one step per batch,   *)
(* one per loop header, one per block of straight-line code.  A raised     *)
(* exception ends the run with `error` set to <<type, line>>.              *)
(*                                                                         *)
(* Numbers the program computes by true division (accuracies, mean         *)
(* losses) are kept as fractions <<numerator, denominator>>;               *)
(* <<0, 0>> is numpy's nan for the mean of an empty list.                  *)
(***************************************************************************)
EXTENDS Integers, Sequences, FiniteSets, TLC

\* ---- bounds of the model ------------------------------------------------
MaxN == 3          \* rows of the (training / evaluated) dataset: 0..MaxN
MaxVN == 2         \* rows of the validation dataset: 0..MaxVN
MaxB == 2          \* batch sizes: 1..MaxB
MaxEpochs == 2     \* epochs: 0..MaxEpochs

VARIABLES
  entry,     \* the routine the run started in: "main", "train" or "test"
  pc,        \* position of the single control thread
  error,     \* <<"none", 0>> or <<exception type, line that raised it>>
  args,      \* the argparse namespace of main()
  logger,    \* "None" or "Logger"
  model,     \* the model and its optimizer: mode and counts of updates
  tr,        \* frame of train()
  te,        \* frame of test()
  files,     \* what the run wrote: logdir artifacts, saved score tensors
  out,       \* what the run reported: scalar summaries, printed summaries
  hist       \* history of the forward passes, kept for the properties

vars == <<entry, pc, error, args, logger, model, tr, te, files, out, hist>>

NoError == <<"none", 0>>
Nan == <<0, 0>>
Classes == {0, 1}
Losses == {1, 2}   \* the values loss.item() takes in the model

\* ---- pure helpers ---------------------------------------------------------
Min(a, b) == IF a <= b THEN a ELSE b

RECURSIVE Sum(_)
Sum(s) == IF s = <<>> THEN 0 ELSE Head(s) + Sum(Tail(s))

\* a slip: np.sum in the place of np.mean
Mean_Sum(l) == IF l = <<>> THEN Nan ELSE <<Sum(l), 1>>

\* np.mean(list): the sum over the count; nan for the empty list
Mean(l) == IF l = <<>> THEN Nan ELSE <<Sum(l), Len(l)>>

\* rows 1..n of a dataset, in index order
Dataset(n) == [k \in 1..n |-> k]

\* the label y of a sample (the dataset collaborator's ground truth)
Label(s) == s % 2

\* DataLoader(dataset, batch_size=b, shuffle=False): consecutive chunks of
\* b rows, the last one short when b does not divide the size
DataLoader(dataset, b) ==
  [j \in 1..((Len(dataset) + b - 1) \div b) |->
     SubSeq(dataset, (j - 1) * b + 1, Min(j * b, Len(dataset)))]

\* scores = model(x): one output row per input row; the row's argmax is
\* whatever the network computes, here the choice p
ModelForward(x, p) == [k \in 1..Len(x) |-> [sample |-> x[k], pred |-> p[k]]]

\* _, preds = scores.max(1)
Preds(scores) == [k \in 1..Len(scores) |-> scores[k].pred]

\* (preds == y).sum(), y being the labels of the batch x
NumEqual(preds, x) == Cardinality({k \in 1..Len(preds) : preds[k] = Label(x[k])})

\* a slip: one per batch in the place of one per row
Size0_PerBatch(preds) == 1

\* preds.size(0)
Size0(preds) == Len(preds)

\* a slip: the last batch's scores in the place of all of them
TorchCat_LastOnly(ts) == IF ts = <<>> THEN <<>> ELSE ts[Len(ts)]

\* torch.cat(all_scores): the batches' rows one after the other
RECURSIVE TorchCat(_)
TorchCat(ts) == IF ts = <<>> THEN <<>> ELSE Head(ts) \o TorchCat(Tail(ts))

\* float(num_correct) / num_samples
Accuracy(num_correct, num_samples) == <<num_correct, num_samples>>

\* a slip: model.eval() left out
ModelEval_Forgotten(m) == m

\* model.train() / model.eval()
ModelTrain(m) == [m EXCEPT !.mode = "train"]
ModelEval(m) == [m EXCEPT !.mode = "eval"]

\* optimizer.zero_grad(); loss.backward(); optimizer.step()
Update(m) == [m EXCEPT !.zero_grads = @ + 1, !.backwards = @ + 1, !.steps = @ + 1]

\* a slip: the update of the training loop copied into test()
EvalBatch_Updates(m) == Update(m)

\* what one batch of test() does to the model and the optimizer: a forward
\* pass and a loss under torch.no_grad(), and nothing else
EvalBatch(m) == m

\* ---- frames ---------------------------------------------------------------
NoFrameTr ==
  [dataloader |-> <<>>, val_dataloader |-> <<>>, epochs |-> 0,
   save_to_log |-> FALSE, logdir |-> "None",
   e |-> 0, t |-> 0, epoch_loss |-> <<>>, num_correct |-> 0, num_samples |-> 0,
   epoch_train_loss |-> Nan, epoch_train_acc |-> Nan,
   epoch_val_loss |-> Nan, epoch_val_acc |-> Nan]

NoFrameTe ==
  [caller |-> "none", dataloader |-> <<>>, save_filepath |-> "None",
   i |-> 0, aggregate_loss |-> <<>>, all_scores |-> <<>>,
   num_correct |-> 0, num_samples |-> 0, returned |-> FALSE,
   acc |-> Nan, average_loss |-> Nan]

NoHist ==
  [fwd |-> "none", mode |-> "none", tests |-> 0,
   rows |-> <<>>, losses |-> <<>>,
   epoch |-> -1, ecorrect |-> 0, esamples |-> 0, elosses |-> <<>>]

Model0 == [mode |-> "train", steps |-> 0, zero_grads |-> 0, backwards |-> 0]
Files0 == [logdir |-> {}, saved |-> <<>>, written |-> FALSE]
Out0 == [scalars |-> <<>>, summaries |-> 0]

Raise(type, line) == /\ error' = <<type, line>>
                     /\ pc' = "done"

\* ---- Init -----------------------------------------------------------------
InitMain ==
  /\ entry = "main"
  /\ pc = "main_setup"
  /\ args \in [mode : {"train", "test"},
               log : {"", "run1"},
               encode : {"int:0", "str:0", "str:1"},
               encode_path : {"None", "enc"}]
  /\ logger = "None"
  /\ tr = NoFrameTr
  /\ te = NoFrameTe

InitTrain ==
  /\ entry = "train"
  /\ pc = "train_init"
  /\ args = [mode |-> "train", log |-> "", encode |-> "int:0",
             encode_path |-> "None"]
  /\ logger \in {"None", "Logger"}
  /\ \E n \in 0..MaxN, vn \in 0..MaxVN, b \in 1..MaxB, ep \in 0..MaxEpochs :
       tr = [NoFrameTr EXCEPT !.dataloader = DataLoader(Dataset(n), b),
                              !.val_dataloader = DataLoader(Dataset(vn), b),
                              !.epochs = ep]
  /\ te = NoFrameTe

InitTest ==
  /\ entry = "test"
  /\ pc = "test_init"
  /\ args = [mode |-> "test", log |-> "", encode |-> "int:0",
             encode_path |-> "None"]
  /\ logger = "None"
  /\ tr = NoFrameTr
  /\ \E n \in 0..MaxN, b \in 1..MaxB, sp \in {"None", "", "scores.pt"} :
       te = [NoFrameTe EXCEPT !.caller = "top",
                              !.dataloader = DataLoader(Dataset(n), b),
                              !.save_filepath = sp]

Init ==
  /\ error = NoError
  /\ model = Model0
  /\ files = Files0
  /\ out = Out0
  /\ hist = NoHist
  /\ (InitMain \/ InitTrain \/ InitTest)

\* ---- main() ---------------------------------------------------------------
\* the dests argParser() adds to the namespace
ArgNames ==
  {"mode", "model", "encode", "gpu", "batch_size", "learning_rate", "epochs",
   "image_train_path", "image_val_path", "encode_path", "pose_train_path",
   "pose_val_path", "log"}

\* logger = Logger(unique_logdir) if args.log != '' else None
LoggerFor(log) == IF log /= "" THEN "Logger" ELSE "None"

\* args.encode == 1: --encode has no type, so a value given on the command
\* line is a string and only an integer 1 compares equal
EncodeRequested(encode) == encode = "int:1"

\* lines 62-79: device, logging, kwargs, the two encode paths
MainSetup ==
  /\ pc = "main_setup"
  /\ logger' = LoggerFor(args.log)
  /\ IF args.encode_path = "None"
       THEN Raise("TypeError", 78)         \* os.path.join(None, ...)
       ELSE pc' = "main_encode" /\ error' = error
  /\ UNCHANGED <<entry, args, model, tr, te, files, out, hist>>

\* lines 81-85: the encode pre-pass
MainEncode ==
  /\ pc = "main_encode"
  /\ IF EncodeRequested(args.encode)
       THEN IF "train_path" \in ArgNames
              THEN Raise("NameError", 96)  \* rgb_encrgb_encoderoding_model
              ELSE Raise("AttributeError", 85)
       ELSE pc' = "main_model" /\ error' = error
  /\ UNCHANGED <<entry, args, logger, model, tr, te, files, out, hist>>

\* lines 117-119: ModelChooser(args.model, **kwargs).to(device)
MainModel ==
  /\ pc = "main_model"
  /\ pc' = "main_dataset"
  /\ UNCHANGED <<entry, error, args, logger, model, tr, te, files, out, hist>>

\* lines 121-127: rnnDataset(encode_path_train, args.train_path, ...)
MainDataset ==
  /\ pc = "main_dataset"
  /\ IF "train_path" \in ArgNames /\ "val_path" \in ArgNames
       THEN pc' = "main_mode" /\ error' = error
       ELSE Raise("AttributeError", 124)
  /\ UNCHANGED <<entry, args, logger, model, tr, te, files, out, hist>>

\* ---- train() --------------------------------------------------------------
\* a slip: logging switched on whatever the logger
SaveToLog_Always(lg) == TRUE

\* save_to_log = logger is not None
SaveToLog(lg) == lg /= "None"

\* logdir = logger.get_logdir() if logger is not None else None
LogdirOf(lg) == IF lg /= "None" THEN "logdir" ELSE "None"

\* the name `epoch` used by the scalar_summary calls: the loop variable is
\* `e`, and nothing in run.py binds `epoch`
EpochBound == FALSE

\* lines 148-151
TrainInit ==
  /\ pc = "train_init"
  /\ tr' = [tr EXCEPT !.save_to_log = SaveToLog(logger),
                      !.logdir = LogdirOf(logger),
                      !.e = 0]
  /\ pc' = "epoch_start"
  /\ UNCHANGED <<entry, error, args, logger, model, te, files, out, hist>>

\* a slip: the accumulators initialised once, not once per epoch
TrainEpochStart_NoReset ==
  /\ pc = "epoch_start"
  /\ IF tr.e < tr.epochs
       THEN /\ tr' = [tr EXCEPT !.t = 0]
            /\ model' = ModelTrain(model)
            /\ pc' = "train_batch"
       ELSE /\ pc' = "done"
            /\ UNCHANGED <<tr, model>>
  /\ UNCHANGED <<entry, error, args, logger, te, files, out, hist>>

\* lines 153-158: the header of `for e in range(epochs)` and the resets
TrainEpochStart ==
  /\ pc = "epoch_start"
  /\ IF tr.e < tr.epochs
       THEN /\ tr' = [tr EXCEPT !.epoch_loss = <<>>, !.num_correct = 0,
                                !.num_samples = 0, !.t = 0]
            /\ model' = ModelTrain(model)
            /\ pc' = "train_batch"
       ELSE /\ pc' = "done"
            /\ UNCHANGED <<tr, model>>
  /\ UNCHANGED <<entry, error, args, logger, te, files, out, hist>>

\* lines 161-175: one training batch, or the end of the dataloader
TrainBatch ==
  /\ pc = "train_batch"
  /\ IF tr.t < Len(tr.dataloader)
       THEN LET x == tr.dataloader[tr.t + 1] IN
            \E p \in [1..Len(x) -> Classes], loss \in Losses :
              LET scores == ModelForward(x, p)
                  preds == Preds(scores)
                  same == hist.epoch = tr.e
                  m1 == ModelTrain(model)
              IN /\ model' = Update(m1)
                 /\ tr' = [tr EXCEPT !.epoch_loss = Append(@, loss),
                                     !.num_correct = @ + NumEqual(preds, x),
                                     !.num_samples = @ + Size0(preds),
                                     !.t = @ + 1]
                 /\ hist' = [hist EXCEPT
                      !.fwd = "train", !.mode = m1.mode,
                      !.epoch = tr.e,
                      !.ecorrect = (IF same THEN @ ELSE 0) + NumEqual(preds, x),
                      !.esamples = (IF same THEN @ ELSE 0) + Len(x),
                      !.elosses = Append(IF same THEN @ ELSE <<>>, loss)]
                 /\ pc' = "train_batch"
       ELSE /\ pc' = "epoch_end"
            /\ UNCHANGED <<model, tr, hist>>
  /\ UNCHANGED <<entry, error, args, logger, te, files, out>>

\* the frame of a call test(model, optimizer, dataloader, device)
CallTest(caller, dl, sp) ==
  [NoFrameTe EXCEPT !.caller = caller, !.dataloader = dl, !.save_filepath = sp]

\* lines 177-183: end of the epoch, up to the call of test()
TrainEpochEnd ==
  /\ pc = "epoch_end"
  /\ model' = ModelEval(model)
  /\ IF tr.num_samples = 0
       THEN /\ tr' = [tr EXCEPT !.epoch_train_loss = Mean(tr.epoch_loss)]
            /\ Raise("ZeroDivisionError", 181)
            /\ te' = te
       ELSE /\ tr' = [tr EXCEPT
                 !.epoch_train_loss = Mean(tr.epoch_loss),
                 !.epoch_train_acc = Accuracy(tr.num_correct, tr.num_samples)]
            /\ te' = CallTest("train", tr.val_dataloader, "None")
            /\ pc' = "test_init"
            /\ error' = error
  /\ UNCHANGED <<entry, args, logger, files, out, hist>>

\* logger.scalar_summary(tag, value, epoch), four times
ScalarSummaries(t) ==
  << <<"epoch_train_loss", t.epoch_train_loss, t.e>>,
     <<"epoch_train_acc", t.epoch_train_acc, t.e>>,
     <<"epoch_val_loss", t.epoch_val_loss, t.e>>,
     <<"epoch_val_acc", t.epoch_val_acc, t.e>> >>

\* lines 185-190
TrainLog ==
  /\ pc = "train_log"
  /\ IF tr.save_to_log
       THEN IF logger = "None"
              THEN Raise("AttributeError", 187) /\ UNCHANGED <<out, files>>
              ELSE IF ~EpochBound
                     THEN Raise("NameError", 187) /\ UNCHANGED <<out, files>>
                     ELSE /\ out' = [out EXCEPT !.scalars = @ \o ScalarSummaries(tr)]
                          /\ files' = [files EXCEPT !.logdir = @ \cup {"events"}]
                          /\ pc' = "train_print"
                          /\ error' = error
       ELSE /\ pc' = "train_print"
            /\ UNCHANGED <<error, out, files>>
  /\ UNCHANGED <<entry, args, logger, model, tr, te, hist>>

\* lines 199-200: the summary line of epoch e + 1 is printed from the four
\* epoch_* locals; then the step to the next value of e.  The four locals
\* are not read again before lines 180-183 rebind them, so the model
\* forgets them here (and the history of the epoch with them).
TrainPrint ==
  /\ pc = "train_print"
  /\ out' = [out EXCEPT !.summaries = @ + 1]
  /\ tr' = [tr EXCEPT !.e = @ + 1,
                      !.epoch_train_loss = Nan, !.epoch_train_acc = Nan,
                      !.epoch_val_loss = Nan, !.epoch_val_acc = Nan]
  /\ hist' = [hist EXCEPT !.rows = <<>>, !.losses = <<>>,
                          !.ecorrect = 0, !.esamples = 0, !.elosses = <<>>]
  /\ pc' = "epoch_start"
  /\ UNCHANGED <<entry, error, args, logger, model, te, files>>

\* ---- test() ---------------------------------------------------------------
\* lines 208-217
TestInit ==
  /\ pc = "test_init"
  /\ te' = [te EXCEPT !.aggregate_loss = <<>>, !.all_scores = <<>>,
                      !.num_correct = 0, !.num_samples = 0, !.i = 0]
  /\ model' = ModelEval(model)
  /\ hist' = [hist EXCEPT !.tests = @ + 1, !.rows = <<>>, !.losses = <<>>]
  /\ pc' = "test_batch"
  /\ UNCHANGED <<entry, error, args, logger, tr, files, out>>

\* lines 218-231: one evaluation batch, or the end of the dataloader
TestBatch ==
  /\ pc = "test_batch"
  /\ IF te.i < Len(te.dataloader)
       THEN LET x == te.dataloader[te.i + 1] IN
            \E p \in [1..Len(x) -> Classes], loss \in Losses :
              LET scores == ModelForward(x, p)
                  preds == Preds(scores)
              IN /\ te' = [te EXCEPT
                      !.aggregate_loss = Append(@, loss),
                      !.num_correct = @ + NumEqual(preds, x),
                      !.num_samples = @ + Size0(preds),
                      !.all_scores = IF te.save_filepath /= "None"
                                       THEN Append(@, scores) ELSE @,
                      !.i = @ + 1]
                 /\ model' = EvalBatch(model)
                 /\ hist' = [hist EXCEPT !.fwd = "test", !.mode = model.mode,
                                         !.rows = @ \o scores,
                                         !.losses = Append(@, loss)]
                 /\ pc' = "test_batch"
       ELSE /\ pc' = "test_save"
            /\ UNCHANGED <<te, hist, model>>
  /\ UNCHANGED <<entry, error, args, logger, tr, files, out>>

\* `if save_filepath:`: None and the empty string are false
Truthy(path) == path /= "None" /\ path /= ""

\* lines 233-235
TestSave ==
  /\ pc = "test_save"
  /\ IF Truthy(te.save_filepath)
       THEN IF te.all_scores = <<>>
              THEN Raise("RuntimeError", 234) /\ files' = files
              ELSE /\ files' = [files EXCEPT !.saved = TorchCat(te.all_scores),
                                             !.written = TRUE]
                   /\ pc' = "test_report"
                   /\ error' = error
       ELSE /\ pc' = "test_report"
            /\ UNCHANGED <<error, files>>
  /\ UNCHANGED <<entry, args, logger, model, tr, te, out, hist>>

\* lines 237-244, and the return to the caller
TestReport ==
  /\ pc = "test_report"
  /\ IF te.num_samples = 0
       THEN /\ Raise("ZeroDivisionError", 238)
            /\ UNCHANGED <<te, tr>>
       ELSE LET acc == Accuracy(te.num_correct, te.num_samples)
                average_loss == Mean(te.aggregate_loss)
            IN /\ error' = error
               /\ IF te.caller = "train"
                    THEN \* epoch_val_acc, epoch_val_loss = test(...): the
                         \* frame of test() is gone after the return
                         /\ tr' = [tr EXCEPT !.epoch_val_acc = acc,
                                             !.epoch_val_loss = average_loss]
                         /\ te' = NoFrameTe
                         /\ pc' = "train_log"
                    ELSE /\ te' = [te EXCEPT !.returned = TRUE, !.acc = acc,
                                             !.average_loss = average_loss]
                         /\ tr' = tr
                         /\ pc' = "done"
  /\ UNCHANGED <<entry, args, logger, model, files, out, hist>>

Next ==
  \/ MainSetup \/ MainEncode \/ MainModel \/ MainDataset
  \/ TrainInit \/ TrainEpochStart \/ TrainBatch \/ TrainEpochEnd
  \/ TrainLog \/ TrainPrint
  \/ TestInit \/ TestBatch \/ TestSave \/ TestReport

Spec == Init /\ [][Next]_vars

\* ---- properties ------------------------------------------------------------
TestPcs == {"test_init", "test_batch", "test_save", "test_report"}

\* the rows of the first n batches of a dataloader, counted batch by batch
RECURSIVE RowsUpTo(_, _)
RowsUpTo(dl, n) == IF n = 0 THEN 0 ELSE Len(dl[n]) + RowsUpTo(dl, n - 1)
RowCount(dl) == RowsUpTo(dl, Len(dl))

\* the rows of a sequence of score rows whose prediction is the label
Correct(rows) == Cardinality({k \in 1..Len(rows) : rows[k].pred = Label(rows[k].sample)})

RECURSIVE Total(_)
Total(l) == IF l = <<>> THEN 0 ELSE l[Len(l)] + Total(SubSeq(l, 1, Len(l) - 1))

\* two fractions with the same value
FracEq(a, b) == a[2] > 0 /\ b[2] > 0 /\ a[1] * b[2] = b[1] * a[2]
InUnit(a) == a[2] > 0 /\ 0 <= a[1] /\ a[1] <= a[2]

\* the pass of test() over its dataloader is over
PassEnded == pc \in {"test_save", "test_report"} \/ (entry = "test" /\ pc = "done")

\* C1: in test(), num_correct <= num_samples after every batch, num_samples
\* is the number of rows of the batches iterated so far, and once the pass is
\* over it is the number of rows of the whole dataset, whatever the batches.
C1_Counts ==
  /\ te.num_correct <= te.num_samples
  /\ te.num_samples = RowsUpTo(te.dataloader, te.i)
  /\ PassEnded => te.num_samples = RowCount(te.dataloader)

\* a pass over two batches, the last one short, is over with some hits
C1_Witness ==
  /\ pc = "test_report"
  /\ Len(te.dataloader) = 2
  /\ Len(te.dataloader[2]) < Len(te.dataloader[1])
  /\ te.num_correct > 0

\* C2: the tensor test() writes under a save path has one row per sample of
\* the dataset, row k being the output for sample k, and its rows are the
\* batches' score rows in the order the dataloader gave them.
C2_Saved ==
  files.written =>
    /\ Truthy(te.save_filepath)
    /\ Len(files.saved) = RowCount(te.dataloader)
    /\ \A k \in 1..Len(files.saved) : files.saved[k].sample = k
    /\ files.saved = hist.rows

\* scores of three samples in two batches were written
C2_Witness ==
  /\ files.written
  /\ Len(te.dataloader) = 2
  /\ Len(files.saved) = 3

\* the lines of run.py that use the logger
LoggerLines == {151, 187, 188, 189, 190}

\* C3 (as claimed): a finished train() over non-empty datasets has taken
\* epochs * ceil(N / B) optimizer steps and printed one summary per epoch,
\* each summary with both accuracies in [0, 1].
C3_Original ==
  LET n == RowCount(tr.dataloader)
      b == Len(tr.dataloader[1])
  IN /\ (entry = "train" /\ pc = "done" /\ n > 0 /\ RowCount(tr.val_dataloader) > 0)
          => /\ model.steps = tr.epochs * ((n + b - 1) \div b)
             /\ out.summaries = tr.epochs
     /\ pc = "train_print" => InUnit(tr.epoch_train_acc) /\ InUnit(tr.epoch_val_acc)

C5_Original ==
  (entry = "train" /\ logger /= "None")
    => /\ pc = "train_print" => Len(out.scalars) = 4 * (tr.e + 1)
       /\ error[2] \notin LoggerLines
       /\ (pc = "done" /\ error = NoError) => Len(out.scalars) = 4 * tr.epochs

\* the pair a pass of test() returns, against the rows and losses of the pass
ReturnsOf(acc, average_loss) ==
  /\ FracEq(acc, <<Correct(hist.rows), Len(hist.rows)>>)
  /\ FracEq(average_loss, <<Total(hist.losses), Len(hist.losses)>>)

\* C6 (as claimed): every pass of test() called on its own ends by returning
\* the overall accuracy and the mean of the batches' losses.
C6_Original ==
  (entry = "test" /\ pc = "done") => te.returned /\ ReturnsOf(te.acc, te.average_loss)

\* C6 (amended): over a dataloader with at least one batch test() returns
\* correct / total of the whole pass and the unweighted mean of the batches'
\* losses; over a dataloader with no batch it returns nothing and raises.
C6_Amended ==
  /\ (entry = "test" /\ pc = "done") =>
       IF te.dataloader /= <<>>
         THEN te.returned /\ error = NoError /\ ReturnsOf(te.acc, te.average_loss)
         ELSE ~te.returned /\ error \in {<<"ZeroDivisionError", 238>>,
                                          <<"RuntimeError", 234>>}
  /\ (entry = "train" /\ pc = "train_log") =>
       ReturnsOf(tr.epoch_val_acc, tr.epoch_val_loss)

\* a pass over two batches with different losses and a wrong row has returned
C6_Witness ==
  /\ entry = "test"
  /\ pc = "done"
  /\ te.returned
  /\ Len(te.aggregate_loss) = 2
  /\ te.aggregate_loss[1] /= te.aggregate_loss[2]
  /\ te.num_correct < te.num_samples

\* C7 (as claimed): main() with its paths given runs the pipeline of its mode
\* and ends normally: params.json written and the training loop run in mode
\* 'train'; one pass of test() and no optimizer step in mode 'test'.
C7_Original ==
  (entry = "main" /\ pc = "done" /\ args.encode_path /= "None")
    => /\ error = NoError
       /\ args.mode = "train" => "params.json" \in files.logdir
       /\ args.mode = "test" => hist.tests = 1 /\ model.steps = 0
                                /\ "params.json" \notin files.logdir

\* C8: the accumulators are empty before the first batch of every epoch, and
\* the training loss and accuracy an epoch reports are those of the batches
\* of that epoch alone.
C8_PerEpoch ==
  /\ (pc = "train_batch" /\ tr.t = 0) =>
       tr.epoch_loss = <<>> /\ tr.num_correct = 0 /\ tr.num_samples = 0
  /\ pc \in {"train_log", "train_print"} =>
       /\ hist.epoch = tr.e
       /\ FracEq(tr.epoch_train_acc, <<hist.ecorrect, hist.esamples>>)
       /\ FracEq(tr.epoch_train_loss, <<Total(hist.elosses), Len(hist.elosses)>>)

\* the summary of a second epoch is about to be printed
C8_Witness ==
  /\ pc = "train_print"
  /\ tr.e = 1
  /\ tr.num_correct > 0

\* C9: in train(), test() is entered once per epoch, after the last training
\* batch and before the summary; training batches run in training mode,
\* validation batches in evaluation mode, and the model is in training mode
\* whenever a training batch is next.
C9_Phases ==
  entry = "train" =>
    /\ hist.fwd = "train" => hist.mode = "train"
    /\ hist.fwd = "test" => hist.mode = "eval"
    /\ pc = "train_batch" => model.mode = "train"
    /\ pc \in {"epoch_start", "train_batch", "epoch_end", "test_init"} =>
         hist.tests = tr.e
    /\ pc \in {"test_batch", "test_save", "test_report", "train_log", "train_print"} =>
         hist.tests = tr.e + 1
    /\ pc \in TestPcs \cup {"train_log", "train_print"} =>
         /\ tr.t = Len(tr.dataloader)
         /\ out.summaries = tr.e
    /\ pc \in TestPcs => te.dataloader = tr.val_dataloader

\* the first batch of a second epoch is next, the last forward pass having
\* been a validation batch
C9_Witness ==
  /\ entry = "train"
  /\ pc = "train_batch"
  /\ tr.e = 1
  /\ tr.t = 0
  /\ hist.fwd = "test"

\* C10: no step taken inside test() changes the parameters or the optimizer:
\* no optimizer step, no zero_grad, no backward.
C10_Frame ==
  [][(pc \in TestPcs) =>
       (model'.steps = model.steps /\ model'.zero_grads = model.zero_grads
        /\ model'.backwards = model.backwards)]_vars

\* a pass of test() that saved its scores has returned
C10_Witness ==
  /\ entry = "test"
  /\ te.returned
  /\ files.written

TypeOK ==
  /\ entry \in {"main", "train", "test"}
  /\ logger \in {"None", "Logger"}
  /\ model.mode \in {"train", "eval"}

====
